---- MODULE Spec2Model ----
(***************************************************************************)
(* Two-class priority queueing simulator (main.py): the event loop of      *)
(* simulate(), its future event list (a heapq binary heap of               *)
(* ((class, time), kind) tuples), the per-class counters and logs, and the *)
(* statistics computed when the loop ends.                                 *)
(*                                                                         *)
(* Time is an integer number of ticks.  A draw of -log(random()) is an     *)
(* even number of ticks, so that dividing it by a rate of 1 or 2 is exact. *)
(* A draw of random() for the class coin is u in UniformSamples, standing  *)
(* for u/2; fp_frac is k in 0..2 standing for k/2 (2 is the fraction 1.0). *)
(***************************************************************************)
EXTENDS Integers, Sequences, FiniteSets, TLC

VARIABLES pc, arrival_rate, fp_frac, time, num_in_queue, arrival_times,
          enter_service_times, departure_times, fel, avg_res_times, error,
          seeded, stream, consumed, calls, previous

\* the arguments and locals of a call of simulate() and its outcome
call == <<pc, arrival_rate, fp_frac, time, num_in_queue, arrival_times,
          enter_service_times, departure_times, fel, avg_res_times, error>>

\* the random source and the caller
vars == <<call, seeded, stream, consumed, calls, previous>>

\* ---------------------------------------------------------------- bounds
MaxArrivals == 3

MaxSample == 1

\* ------------------------------------------------------------- constants
\* the cap on logged arrivals (50000 in main.py), bounded for the search
max_num_arrivals == MaxArrivals

service_rate == 1

Class == {0, 1}

\* values of -log(random()), in ticks
LogSamples == {2 * k : k \in 0 .. MaxSample}

\* values of random() used by the class coin, in halves
UniformSamples == {0, 1}

\* fp_frac == 1.0, in halves
One == Cardinality(UniformSamples)

ValidRates == {1, 2}

ValidFracs == 0 .. One

\* ------------------------------------------------------ random variates
\* random(): the values the k-th draw of a step can have, out of S.  A
\* seeded source repeats `stream`, its output since the seed, and is free
\* beyond the end of it; a source that was never seeded is free.
Random(k, S) ==
  IF consumed + k <= Len(stream) THEN {stream[consumed + k]} ELSE S

\* the source after a step has drawn the values d, in that order
Drawn(d) ==
  IF seeded
  THEN /\ consumed' = consumed + Len(d)
       /\ stream' = IF consumed + Len(d) > Len(stream)
                    THEN SubSeq(stream, 1, consumed) \o d ELSE stream
  ELSE UNCHANGED <<stream, consumed>>

\* a \div b for a divisor of either sign (the float division of rand_exp)
Quot(a, b) == IF b < 0 THEN -(a \div (-b)) ELSE a \div b

\* rand_exp(rate), given l = -log(random())
rand_exp(rate, l) == Quot(l, rate)

\* the coin with <= for <
is_fp_le(fastpass_fraction, u) == IF u <= fastpass_fraction THEN 0 ELSE 1

\* the coin with the two classes swapped
is_fp_swapped(fastpass_fraction, u) == IF u < fastpass_fraction THEN 1 ELSE 0

\* is_fp(fastpass_fraction), given u = random(): 0 is fastpass, 1 is regular
is_fp(fastpass_fraction, u) == IF u < fastpass_fraction THEN 0 ELSE 1

\* ------------------------------------------------- the future event list
\* 'arrival' < 'departure', the only two strings the tuples carry
StrLess(a, b) == a = "arrival" /\ b = "departure"

\* the order with the scheduled time compared before the class
EventLess_time_first(a, b) ==
  IF a[1][2] # b[1][2] THEN a[1][2] < b[1][2]
  ELSE IF a[1][1] # b[1][1] THEN a[1][1] < b[1][1]
  ELSE StrLess(a[2], b[2])

\* Python's order on the tuples ((class, time), kind)
EventLess(a, b) ==
  IF a[1][1] # b[1][1] THEN a[1][1] < b[1][1]
  ELSE IF a[1][2] # b[1][2] THEN a[1][2] < b[1][2]
  ELSE StrLess(a[2], b[2])

RECURSIVE SiftDownLoop(_, _, _, _)
SiftDownLoop(heap, startpos, pos, newitem) ==
  IF pos > startpos
  THEN LET parentpos == (pos - 1) \div 2
           parent == heap[parentpos + 1]
       IN  IF EventLess(newitem, parent)
           THEN SiftDownLoop([heap EXCEPT ![pos + 1] = parent],
                             startpos, parentpos, newitem)
           ELSE [heap EXCEPT ![pos + 1] = newitem]
  ELSE [heap EXCEPT ![pos + 1] = newitem]

\* heapq._siftdown: move heap[pos] up towards startpos
siftdown(heap, startpos, pos) ==
  SiftDownLoop(heap, startpos, pos, heap[pos + 1])

RECURSIVE SiftUpLoop(_, _, _, _)
SiftUpLoop(heap, pos, childpos, endpos) ==
  IF childpos < endpos
  THEN LET rightpos == childpos + 1
           c == IF rightpos < endpos
                   /\ ~EventLess(heap[childpos + 1], heap[rightpos + 1])
                THEN rightpos ELSE childpos
       IN  SiftUpLoop([heap EXCEPT ![pos + 1] = heap[c + 1]],
                      c, 2 * c + 1, endpos)
  ELSE <<heap, pos>>

\* heapq._siftup: bubble the smaller child up to a leaf, then sift down
siftup(heap, pos) ==
  LET newitem == heap[pos + 1]
      r == SiftUpLoop(heap, pos, 2 * pos + 1, Len(heap))
  IN  siftdown([r[1] EXCEPT ![r[2] + 1] = newitem], pos, r[2])

heappush(heap, item) == siftdown(Append(heap, item), 0, Len(heap))

\* the item heappop returns
heappop_item(heap) == heap[1]

\* the heap heappop leaves
heappop_heap(heap) ==
  LET lastelt == heap[Len(heap)]
      rest == SubSeq(heap, 1, Len(heap) - 1)
  IN  IF rest # <<>> THEN siftup([rest EXCEPT ![1] = lastelt], 0) ELSE rest

\* ----------------------------------------------------------- simulate()
\* the next arrival timed from 0 instead of from the clock
ArrivalEvent_from_zero(t, l, u) ==
  <<<<is_fp(fp_frac, u), rand_exp(arrival_rate, l)>>, "arrival">>

ArrivalEvent(t, l, u) ==
  <<<<is_fp(fp_frac, u), t + rand_exp(arrival_rate, l)>>, "arrival">>

\* the departure scheduled in the other class
DepartureEvent_other(c, t, l) ==
  <<<<1 - c, t + rand_exp(service_rate, l)>>, "departure">>

\* the departure scheduled a service time before now
DepartureEvent_minus(c, t, l) ==
  <<<<c, t - rand_exp(service_rate, l)>>, "departure">>

DepartureEvent(c, t, l) ==
  <<<<c, t + rand_exp(service_rate, l)>>, "departure">>

\* the fastpass test that also asks for an idle regular queue
fp_enters_service_idle(n) == n = 1 /\ num_in_queue[1] = 0

\* the fastpass test with >= for ==
fp_enters_service_ge(n) == n >= 1

\* "if num_in_queue[0] == 1": a fastpass arrival finds its queue empty
fp_enters_service(n) == n = 1

\* the regular test without its "queue was empty" half
reg_enters_service_any(n1, n0) == n0 = 0

\* "if (num_in_queue[1] == 1) and (num_in_queue[0] == 0)"
reg_enters_service(n1, n0) == n1 = 1 /\ n0 = 0

\* the test with > 1 for > 0
more_waiting_gt1(n) == n > 1

\* the test with >= for >
more_waiting_ge(n) == n >= 0

\* "if num_in_queue[c] > 0": a departure leaves customers waiting
more_waiting(n) == n > 0

\* the loop condition with <= for <
LoopCond_le ==
  /\ Len(fel) > 0
  /\ Len(arrival_times[1]) + Len(arrival_times[0]) <= max_num_arrivals

\* the condition of the while loop
LoopCond ==
  /\ Len(fel) > 0
  /\ Len(arrival_times[1]) + Len(arrival_times[0]) < max_num_arrivals

\* a list that outlives the call that filled it
kept_arrival_times == arrival_times

\* the lists a call starts with
new_arrival_times == [c \in Class |-> <<>>]

new_enter_service_times == [c \in Class |-> <<>>]

new_departure_times == [c \in Class |-> <<>>]

new_fel == <<>>

\* what a caller sees of a call when it has ended
Snapshot ==
  [pc |-> pc, avg_res_times |-> avg_res_times, error |-> error, time |-> time,
   num_in_queue |-> num_in_queue, arrival_times |-> arrival_times,
   enter_service_times |-> enter_service_times,
   departure_times |-> departure_times, fel |-> fel, consumed |-> consumed]

\* before the first call
Idle ==
  /\ pc = "call"
  /\ time = 0
  /\ num_in_queue = [c \in Class |-> 0]
  /\ arrival_times = [c \in Class |-> <<>>]
  /\ enter_service_times = [c \in Class |-> <<>>]
  /\ departure_times = [c \in Class |-> <<>>]
  /\ fel = <<>>
  /\ avg_res_times = <<>>
  /\ error = "none"
  /\ stream = <<>>
  /\ consumed = 0
  /\ calls = 1
  /\ previous = Snapshot

Init ==
  /\ arrival_rate \in ValidRates
  /\ fp_frac \in ValidFracs
  /\ seeded = FALSE
  /\ Idle

\* the locals of a call and the first arrival event
Start ==
  /\ pc = "call"
  /\ time' = 0
  /\ num_in_queue' = [c \in Class |-> 0]
  /\ arrival_times' = new_arrival_times
  /\ enter_service_times' = new_enter_service_times
  /\ departure_times' = new_departure_times
  /\ avg_res_times' = <<>>
  /\ IF arrival_rate = 0
     THEN /\ pc' = "raised"
          /\ error' = "ZeroDivisionError in rand_exp"
          /\ fel' = new_fel
          /\ \E l \in Random(1, LogSamples) : Drawn(<<l>>)
     ELSE /\ \E l \in Random(1, LogSamples), u \in Random(2, UniformSamples) :
               /\ fel' = heappush(new_fel, ArrivalEvent(0, l, u))
               /\ Drawn(<<l, u>>)
          /\ pc' = "loop"
          /\ error' = "none"
  /\ UNCHANGED <<arrival_rate, fp_frac, seeded, calls, previous>>

\* one iteration of the loop that pops an event of the given class and kind
Pops(c, kind) ==
  /\ pc = "loop"
  /\ LoopCond
  /\ heappop_item(fel)[1][1] = c
  /\ heappop_item(fel)[2] = kind

ArrivalFastpass ==
  /\ Pops(0, "arrival")
  /\ LET now == heappop_item(fel)[1][2]
         n == num_in_queue[0] + 1
     IN  /\ time' = now
         /\ arrival_times' = [arrival_times EXCEPT ![0] = Append(@, now)]
         /\ num_in_queue' = [num_in_queue EXCEPT ![0] = n]
         /\ \E l \in Random(1, LogSamples), u \in Random(2, UniformSamples) :
              LET fel1 == heappush(heappop_heap(fel), ArrivalEvent(now, l, u))
              IN  IF fp_enters_service(n)
                  THEN /\ enter_service_times' =
                            [enter_service_times EXCEPT ![0] = Append(@, now)]
                       /\ \E s \in Random(3, LogSamples) :
                            /\ fel' = heappush(fel1, DepartureEvent(0, now, s))
                            /\ Drawn(<<l, u, s>>)
                  ELSE /\ fel' = fel1
                       /\ Drawn(<<l, u>>)
                       /\ UNCHANGED enter_service_times
  /\ UNCHANGED <<pc, arrival_rate, fp_frac, departure_times, avg_res_times, error,
                 seeded, calls, previous>>

DepartureFastpass ==
  /\ Pops(0, "departure")
  /\ LET now == heappop_item(fel)[1][2]
         n == num_in_queue[0] - 1
     IN  /\ time' = now
         /\ departure_times' = [departure_times EXCEPT ![0] = Append(@, now)]
         /\ num_in_queue' = [num_in_queue EXCEPT ![0] = n]
         /\ IF more_waiting(n)
            THEN /\ enter_service_times' =
                      [enter_service_times EXCEPT ![0] = Append(@, now)]
                 /\ \E s \in Random(1, LogSamples) :
                      /\ fel' = heappush(heappop_heap(fel), DepartureEvent(0, now, s))
                      /\ Drawn(<<s>>)
            ELSE /\ fel' = heappop_heap(fel)
                 /\ Drawn(<<>>)
                 /\ UNCHANGED enter_service_times
  /\ UNCHANGED <<pc, arrival_rate, fp_frac, arrival_times, avg_res_times, error,
                 seeded, calls, previous>>

ArrivalRegular ==
  /\ Pops(1, "arrival")
  /\ LET now == heappop_item(fel)[1][2]
         n == num_in_queue[1] + 1
     IN  /\ time' = now
         /\ arrival_times' = [arrival_times EXCEPT ![1] = Append(@, now)]
         /\ num_in_queue' = [num_in_queue EXCEPT ![1] = n]
         /\ \E l \in Random(1, LogSamples), u \in Random(2, UniformSamples) :
              LET fel1 == heappush(heappop_heap(fel), ArrivalEvent(now, l, u))
              IN  IF reg_enters_service(n, num_in_queue[0])
                  THEN /\ enter_service_times' =
                            [enter_service_times EXCEPT ![1] = Append(@, now)]
                       /\ \E s \in Random(3, LogSamples) :
                            /\ fel' = heappush(fel1, DepartureEvent(1, now, s))
                            /\ Drawn(<<l, u, s>>)
                  ELSE /\ fel' = fel1
                       /\ Drawn(<<l, u>>)
                       /\ UNCHANGED enter_service_times
  /\ UNCHANGED <<pc, arrival_rate, fp_frac, departure_times, avg_res_times, error,
                 seeded, calls, previous>>

DepartureRegular ==
  /\ Pops(1, "departure")
  /\ LET now == heappop_item(fel)[1][2]
         n == num_in_queue[1] - 1
     IN  /\ time' = now
         /\ departure_times' = [departure_times EXCEPT ![1] = Append(@, now)]
         /\ num_in_queue' = [num_in_queue EXCEPT ![1] = n]
         /\ IF more_waiting(n)
            THEN /\ enter_service_times' =
                      [enter_service_times EXCEPT ![1] = Append(@, now)]
                 /\ \E s \in Random(1, LogSamples) :
                      /\ fel' = heappush(heappop_heap(fel), DepartureEvent(1, now, s))
                      /\ Drawn(<<s>>)
            ELSE /\ fel' = heappop_heap(fel)
                 /\ Drawn(<<>>)
                 /\ UNCHANGED enter_service_times
  /\ UNCHANGED <<pc, arrival_rate, fp_frac, arrival_times, avg_res_times, error,
                 seeded, calls, previous>>

\* ------------------------------------------------------------ statistics
RECURSIVE sum(_)
sum(s) == IF s = <<>> THEN 0 ELSE Head(s) + sum(Tail(s))

\* [ departure_times[c][i] - arrival_times[c][i] for i in range(len(departure_times[c])) ]
res_time(c) ==
  [i \in 1 .. Len(departure_times[c]) |->
     departure_times[c][i] - arrival_times[c][i]]

\* sum(res_time) / len(res_time), kept as the exact fraction <<sum, len>>
avg(r) == <<sum(r), Len(r)>>

\* the number 0 that stands for the fastpass average when fp_frac == 0
Zero == <<0, 1>>

\* the end of simulate(): the averages, or the division that raises
Statistics ==
  /\ pc = "loop"
  /\ ~LoopCond
  /\ IF Len(res_time(1)) = 0
     THEN /\ pc' = "raised"
          /\ error' = "ZeroDivisionError in avg_res_time_reg"
          /\ UNCHANGED avg_res_times
     ELSE IF fp_frac = 0
     THEN /\ pc' = "returned"
          /\ avg_res_times' = <<avg(res_time(1)), Zero>>
          /\ UNCHANGED error
     ELSE IF Len(res_time(0)) = 0
     THEN /\ pc' = "raised"
          /\ error' = "ZeroDivisionError in avg_res_time_fp"
          /\ UNCHANGED avg_res_times
     ELSE /\ pc' = "returned"
          /\ avg_res_times' = <<avg(res_time(1)), avg(res_time(0))>>
          /\ UNCHANGED error
  /\ UNCHANGED <<arrival_rate, fp_frac, time, num_in_queue, arrival_times,
                 enter_service_times, departure_times, fel,
                 seeded, stream, consumed, calls, previous>>

Next ==
  \/ Start
  \/ ArrivalFastpass
  \/ DepartureFastpass
  \/ ArrivalRegular
  \/ DepartureRegular
  \/ Statistics

Spec == Init /\ [][Next]_vars

\* ------------------------------------------- other specifications
InvalidRates == {-1, 0}

InvalidFracs == {-1, One + 1}

\* a call with any configuration, valid or not
InitAnyConfig ==
  /\ arrival_rate \in ValidRates \cup InvalidRates
  /\ fp_frac \in ValidFracs \cup InvalidFracs
  /\ seeded = FALSE
  /\ Idle

SpecAnyConfig == InitAnyConfig /\ [][Next]_vars

\* the call runs on: no step of it waits for anything outside
LiveSpec == Init /\ [][Next]_vars /\ WF_vars(Next)

\* a caller that seeds the random source, calls simulate(), seeds the
\* source again with the same seed and calls simulate() a second time with
\* the same arguments
InitRuns ==
  /\ arrival_rate \in ValidRates
  /\ fp_frac \in ValidFracs
  /\ seeded = TRUE
  /\ Idle

CallAgain ==
  /\ pc \in {"returned", "raised"}
  /\ calls = 1
  /\ calls' = 2
  /\ previous' = Snapshot
  /\ consumed' = 0
  /\ pc' = "call"
  /\ UNCHANGED <<arrival_rate, fp_frac, time, num_in_queue, arrival_times,
                 enter_service_times, departure_times, fel, avg_res_times,
                 error, seeded, stream>>

NextRuns == Next \/ CallAgain

SpecRuns == InitRuns /\ [][NextRuns]_vars

\* ---------------------------------------------------------------- claims
Exited == pc \in {"returned", "raised"}

LoopHead == pc = "loop" /\ LoopCond

LoopExit == pc = "loop" /\ ~LoopCond

TotalArrivals == Len(arrival_times[0]) + Len(arrival_times[1])

TotalDepartures == Len(departure_times[0]) + Len(departure_times[1])

InFel(c, kind) == \E i \in 1 .. Len(fel) : fel[i][1][1] = c /\ fel[i][2] = kind

\* C1: the times successively assigned to `time` by the event loop never
\* decrease.  The code pops every class-0 event before any class-1 event,
\* whatever their times, so this fails.
C1_MonotonicClock ==
  [][(pc = "loop" /\ pc' = "loop") => time' >= time]_vars

\* C2: for every class c and every logged departure i, departure_times[c][i]
\* is at least arrival_times[c][i]: no residence time is negative.
C2_ResidenceNonNegative ==
  \A c \in Class : \A i \in 1 .. Len(departure_times[c]) :
    /\ i <= Len(arrival_times[c])
    /\ departure_times[c][i] >= arrival_times[c][i]

\* C2 witness: both classes have a departure; the regular customer stayed
\* for a positive time and departed, after the fastpass one was logged, at
\* an earlier time than the fastpass one.
C2_Witness ==
  /\ Len(departure_times[0]) >= 1
  /\ Len(departure_times[1]) >= 1
  /\ departure_times[1][1] > arrival_times[1][1]
  /\ departure_times[1][1] < departure_times[0][1]
  /\ time = departure_times[1][1]

\* C3: for each class, len(departure_times) <= len(enter_service_times)
\* <= len(arrival_times) at every point of the run.
C3_LogLengths ==
  \A c \in Class :
    /\ Len(departure_times[c]) <= Len(enter_service_times[c])
    /\ Len(enter_service_times[c]) <= Len(arrival_times[c])

\* C3 witness: in one class a customer has departed, one is in service and
\* one is waiting.
C3_Witness ==
  \E c \in Class :
    /\ 1 <= Len(departure_times[c])
    /\ Len(departure_times[c]) < Len(enter_service_times[c])
    /\ Len(enter_service_times[c]) < Len(arrival_times[c])

\* C4: for each class, num_in_queue equals arrivals logged minus departures
\* logged, is never negative, and the event about to be popped is never a
\* departure of a class whose counter is 0.
C4_CounterIsBacklog ==
  \A c \in Class :
    /\ num_in_queue[c] = Len(arrival_times[c]) - Len(departure_times[c])
    /\ num_in_queue[c] >= 0
    /\ (LoopHead /\ heappop_item(fel)[1][1] = c
          /\ heappop_item(fel)[2] = "departure") => num_in_queue[c] > 0

\* C4 witness: a departure is about to be popped for a class that already
\* had a departure, while the other class has a customer in the system.
C4_Witness ==
  \E c \in Class :
    /\ LoopHead
    /\ heappop_item(fel)[1][1] = c
    /\ heappop_item(fel)[2] = "departure"
    /\ num_in_queue[c] >= 1
    /\ Len(departure_times[c]) + num_in_queue[1 - c] >= 1

\* C5: the event loop always terminates, and only through the cap.  Every
\* iteration logs exactly one arrival or one departure; the entries logged
\* never exceed twice the cap (departures never exceed arrivals); a call that
\* has not ended always has a next step (the loop is never stuck); and when
\* the loop has ended the arrivals logged are exactly max_num_arrivals and
\* the future event list is not empty.  A count that grows by one at every
\* iteration and is bounded leaves room for finitely many iterations.
C5_Termination ==
  /\ [](Exited \/ ENABLED Next)
  /\ [](LoopHead => TotalArrivals + TotalDepartures < 2 * max_num_arrivals)
  /\ [](TotalDepartures <= TotalArrivals /\ TotalArrivals <= max_num_arrivals)
  /\ []((LoopExit \/ Exited) => (TotalArrivals = max_num_arrivals /\ fel # <<>>))
  /\ [][(pc = "loop" /\ pc' = "loop") =>
          TotalArrivals' + TotalDepartures' = TotalArrivals + TotalDepartures + 1]_vars

\* the same under the fairness of LiveSpec: the call ends
Terminates == <>Exited

\* C5 witness: the loop has ended at the cap with departures logged and
\* events still in the list.
C5_Witness ==
  /\ LoopExit
  /\ TotalArrivals = max_num_arrivals
  /\ TotalDepartures >= 2
  /\ Len(fel) >= 2

\* C6: with fp_frac == 0 no fastpass event is ever created or processed,
\* the empty fastpass count is never divided by, and a pair that simulate()
\* returns is (regular average, 0).
C6_NoFastpassSentinel ==
  fp_frac = 0 =>
    /\ arrival_times[0] = <<>> /\ enter_service_times[0] = <<>>
    /\ departure_times[0] = <<>> /\ num_in_queue[0] = 0
    /\ \A i \in 1 .. Len(fel) : fel[i][1][1] # 0
    /\ error # "ZeroDivisionError in avg_res_time_fp"
    /\ pc = "returned" =>
         (avg_res_times = <<avg(res_time(1)), Zero>> /\ Len(res_time(1)) > 0)

\* C6 witness: a call with fp_frac == 0 has returned after regular
\* customers departed.
C6_Witness ==
  /\ fp_frac = 0
  /\ pc = "returned"
  /\ avg_res_times[2] = Zero
  /\ Len(departure_times[1]) >= 2

\* C7: simulate() never faults: a class without a completed customer gets
\* the sentinel 0 as its average.  The code divides by the empty count.
C7_NeverFaults == pc # "raised"

\* C8: with fp_frac == 1.0 the regular logs stay empty, num_in_queue[1]
\* stays 0 and no regular event, arrival or departure, is ever scheduled.
C8_AllFastpass ==
  fp_frac = One =>
    /\ arrival_times[1] = <<>> /\ enter_service_times[1] = <<>>
    /\ departure_times[1] = <<>> /\ num_in_queue[1] = 0
    /\ \A i \in 1 .. Len(fel) : fel[i][1][1] # 1

\* C8 witness: with fp_frac == 1.0 fastpass customers have arrived, waited
\* and departed.
C8_Witness ==
  /\ fp_frac = One
  /\ Len(arrival_times[0]) >= 3
  /\ Len(departure_times[0]) >= 1
  /\ num_in_queue[0] >= 2

\* C9: a call with arrival_rate <= 0 or fp_frac outside [0,1] ends in an
\* error before the loop: it never runs the event loop and never returns a
\* pair.  The code validates nothing.
C9_InvalidRejected ==
  (arrival_rate <= 0 \/ fp_frac < 0 \/ fp_frac > One) =>
     (pc # "loop" /\ pc # "returned")

Prefix(s, t) == Len(s) <= Len(t) /\ SubSeq(t, 1, Len(s)) = s

\* C10: a second call with the same arguments that gets the same random
\* draws as the first goes through the states of the first, whatever the
\* first left behind: at every point its logs are the first call's logs up
\* to there, it draws no more than the first drew, and it ends as the first
\* ended, with the same outcome, the same tuple and the same final state.
C10_Deterministic ==
  (calls = 2 /\ pc # "call") =>
    /\ consumed <= previous.consumed
    /\ \A c \in Class :
         /\ Prefix(arrival_times[c], previous.arrival_times[c])
         /\ Prefix(enter_service_times[c], previous.enter_service_times[c])
         /\ Prefix(departure_times[c], previous.departure_times[c])
    /\ (LoopExit \/ Exited) =>
         /\ arrival_times = previous.arrival_times
         /\ fel = previous.fel
         /\ time = previous.time
    /\ Exited => Snapshot = previous

\* C10 witness: the second call has returned a pair after customers of both
\* classes departed.
C10_Witness ==
  /\ calls = 2
  /\ pc = "returned"
  /\ fp_frac = 1
  /\ Len(stream) >= 8

\* customers of class c that entered service and have not departed
InService(c) == Len(enter_service_times[c]) - Len(departure_times[c])

\* the Departure events of class c in the future event list
NumInFel(c, kind) ==
  Cardinality({i \in 1 .. Len(fel) : fel[i][1][1] = c /\ fel[i][2] = kind})

\* C11 as stated: a fastpass and a regular customer are never in service
\* together: the list never holds a fastpass and a regular Departure at
\* once, and at most one customer in all is in service.  A fastpass arrival
\* that finds its own queue empty starts service whatever the regular class
\* is doing, so this fails.
C11_SingleServer ==
  /\ ~(InFel(0, "departure") /\ InFel(1, "departure"))
  /\ InService(0) + InService(1) <= 1

\* C11 amended: within each class customers are served one at a time (at
\* most one in service and one Departure per class, so at most two in all),
\* and a regular customer never enters service while a fastpass customer is
\* in service: the two classes overlap only when a fastpass customer starts
\* service during a regular service.
C11_OnePerClass ==
  /\ [](\A c \in Class : InService(c) \in {0, 1} /\ NumInFel(c, "departure") <= 1)
  /\ [][Len(enter_service_times'[1]) > Len(enter_service_times[1]) =>
          (InService(0) = 0 /\ InService(0)' = 0)]_vars

\* C11 witness: a fastpass and a regular customer are in service together.
C11_Witness ==
  /\ InFel(0, "departure") /\ InFel(1, "departure")
  /\ InService(0) = 1 /\ InService(1) = 1

\* C12: for each class the future event list holds at most one Departure
\* event of that class, and the Departure events of the class are as many
\* as its customers that entered service and have not departed.
C12_DeparturePerService ==
  \A c \in Class :
    /\ NumInFel(c, "departure") <= 1
    /\ NumInFel(c, "departure") = InService(c)

\* C12 witness: at a loop head a class has a Departure outstanding for a
\* customer that waited and entered service when the one before it left.
C12_Witness ==
  \E c \in Class :
    /\ LoopHead
    /\ NumInFel(c, "departure") = 1
    /\ Len(departure_times[c]) >= 1
    /\ Len(enter_service_times[c]) = 2
    /\ enter_service_times[c][2] > arrival_times[c][2]

\* the time at which customer j of class c departs: logged, or scheduled by
\* the Departure event in the list when j is the customer in service
DepartureOf(c, j) ==
  IF j <= Len(departure_times[c]) THEN {departure_times[c][j]}
  ELSE IF j = Len(departure_times[c]) + 1 /\ InService(c) = 1
  THEN {fel[i][1][2] : i \in {k \in 1 .. Len(fel) :
                               fel[k][1][1] = c /\ fel[k][2] = "departure"}}
  ELSE {}

\* C13: a regular customer does not start service on arrival while a
\* fastpass customer is in the system: for every regular customer whose
\* service entry time equals its arrival time t, no fastpass customer that
\* arrived before t departs, in the log or on schedule, after t.  (The claim
\* also covers fastpass arrivals at t itself; the failure needs no such tie,
\* so they are left out here.)  The list pops fastpass events of later times
\* first, so when a regular arrival is handled the fastpass counter is 0
\* although, at the arrival's own time, a fastpass customer was still being
\* served: this fails.
C13_RegularWaitsForFastpass ==
  \A i \in 1 .. Len(enter_service_times[1]) :
    enter_service_times[1][i] = arrival_times[1][i] =>
      \A j \in 1 .. Len(arrival_times[0]) :
        arrival_times[0][j] < arrival_times[1][i] =>
          \A d \in DepartureOf(0, j) : d <= arrival_times[1][i]

\* the composite key (class, scheduled_time) of event a is not above that of b
KeyLeq(a, b) ==
  \/ a[1][1] < b[1][1]
  \/ a[1][1] = b[1][1] /\ a[1][2] <= b[1][2]

\* the number of copies of event e in list h
Count(e, h) == Cardinality({i \in 1 .. Len(h) : h[i] = e})

\* C14: the event the loop pops next is the least of the list under the key
\* (class, scheduled_time), fastpass (0) before regular (1): no event of the
\* list has a smaller class, or the same class and an earlier time.  The
\* iteration sets the clock to the time of that event, and every other event
\* of the list is still in the list afterwards with the key it was created
\* with.
C14_PopsLeastKey ==
  /\ [](pc = "loop" => \A i \in 1 .. Len(fel) : KeyLeq(fel[1], fel[i]))
  /\ [][LoopHead =>
          /\ time' = fel[1][1][2]
          /\ \A i \in 1 .. Len(fel) :
               Count(fel[i], fel') >=
                 Count(fel[i], fel) - (IF fel[i] = fel[1] THEN 1 ELSE 0)]_vars

\* C14 witness: a fastpass event is about to be popped while a regular event
\* with an earlier scheduled time remains, and the list holds a third event.
C14_Witness ==
  /\ LoopHead
  /\ Len(fel) >= 3
  /\ fel[1][1][1] = 0
  /\ \E i \in 2 .. Len(fel) : fel[i][1][1] = 1 /\ fel[i][1][2] < fel[1][1][2]

\* an iteration that handles an Arrival of class c
ArrivalStep(c) ==
  pc = "loop" /\ Len(arrival_times'[c]) = Len(arrival_times[c]) + 1

\* C15: a fastpass arrival that finds the fastpass counter at 0 begins
\* service at its own arrival time: the arrival time is appended to the
\* fastpass service-entry log and one fastpass Departure is added to the list,
\* whatever the regular counter is and whether or not a regular Departure is
\* in the list.  A fastpass arrival that finds the counter at 1 or more leaves
\* the service-entry log alone and adds no Departure of either class.
C15_FastpassArrival ==
  [][ArrivalStep(0) =>
       /\ time' = arrival_times'[0][Len(arrival_times'[0])]
       /\ NumInFel(1, "departure")' = NumInFel(1, "departure")
       /\ IF num_in_queue[0] = 0
          THEN /\ num_in_queue'[0] = 1
               /\ enter_service_times'[0] = Append(enter_service_times[0], time')
               /\ NumInFel(0, "departure")' = NumInFel(0, "departure") + 1
               /\ \E i \in 1 .. Len(fel') :
                    /\ fel'[i][1][1] = 0 /\ fel'[i][2] = "departure"
                    /\ fel'[i][1][2] >= time'
          ELSE /\ enter_service_times'[0] = enter_service_times[0]
               /\ NumInFel(0, "departure")' = NumInFel(0, "departure")]_vars

\* C15 witness: a fastpass arrival has just begun service at its arrival time
\* while a regular customer is in service with its Departure in the list.
C15_Witness ==
  /\ LoopHead
  /\ num_in_queue[0] = 1 /\ num_in_queue[1] >= 1
  /\ InFel(0, "departure") /\ InFel(1, "departure")
  /\ Len(departure_times[0]) = 0 /\ Len(arrival_times[0]) = 1
  /\ enter_service_times[0] = <<time>> /\ arrival_times[0] = <<time>>

\* the events of class c and the given kind in list h
EventsIn(h, c, kind) ==
  {h[i] : i \in {k \in 1 .. Len(h) : h[k][1][1] = c /\ h[k][2] = kind}}

\* C16: an iteration that handles an event of class c leaves the other
\* class's counter, its three logs and its Departure events as they were; a
\* Departure iteration also leaves the Arrival event of the list as it was,
\* and an Arrival iteration leaves exactly one Arrival event in the list.  In
\* particular a fastpass Departure never appends to the regular service-entry
\* log and never adds a regular Departure.
C16_PerClassFrame ==
  [][LoopHead =>
       LET c == fel[1][1][1]
           o == 1 - fel[1][1][1]
       IN  /\ num_in_queue'[o] = num_in_queue[o]
           /\ arrival_times'[o] = arrival_times[o]
           /\ enter_service_times'[o] = enter_service_times[o]
           /\ departure_times'[o] = departure_times[o]
           /\ EventsIn(fel', o, "departure") = EventsIn(fel, o, "departure")
           /\ IF fel[1][2] = "departure"
              THEN /\ arrival_times'[c] = arrival_times[c]
                   /\ \A k \in Class :
                        EventsIn(fel', k, "arrival") = EventsIn(fel, k, "arrival")
              ELSE /\ departure_times'[c] = departure_times[c]
                   /\ NumInFel(0, "arrival")' + NumInFel(1, "arrival")' = 1]_vars

\* C16 witness: a fastpass Departure has just emptied the fastpass queue
\* while a regular customer is in the system with its Departure in the list.
C16_Witness ==
  /\ LoopHead
  /\ Len(departure_times[0]) = 1
  /\ time = departure_times[0][1]
  /\ num_in_queue[0] = 0 /\ ~InFel(0, "departure")
  /\ num_in_queue[1] = 1 /\ InFel(1, "departure")
  /\ enter_service_times[1] = arrival_times[1]
  /\ arrival_times[1][1] < time

\* the loop is about to pop a regular event: the list holds no fastpass event
\* and the fastpass counter is 0
RegularEventSeesNoFastpass ==
  (LoopHead /\ fel[1][1][1] = 1) =>
    /\ \A i \in 1 .. Len(fel) : fel[i][1][1] = 1
    /\ num_in_queue[0] = 0

\* a regular arrival that makes the regular counter 1 begins service at its
\* arrival time
SoleRegularEntersService ==
  (ArrivalStep(1) /\ num_in_queue[1] = 0) =>
    /\ time' = arrival_times'[1][Len(arrival_times'[1])]
    /\ enter_service_times'[1] = Append(enter_service_times[1], time')
    /\ NumInFel(1, "departure")' = NumInFel(1, "departure") + 1

\* C17 as stated: a regular event is popped only when no fastpass event is in
\* the list, so the fastpass counter is 0 at every regular event; a regular
\* arrival that makes the regular counter 1 begins service at its arrival
\* time; and the waiting case of the regular arrival branch is never taken,
\* that is, every regular arrival begins service.  The last part fails: a
\* regular arrival that finds a regular customer present waits.
C17_RegularNeverWaits ==
  /\ []RegularEventSeesNoFastpass
  /\ [][SoleRegularEntersService]_vars
  /\ [][ArrivalStep(1) =>
          enter_service_times'[1] = Append(enter_service_times[1], time')]_vars

\* C17 amended: a regular event is popped only when no fastpass event is in
\* the list, so the fastpass counter is 0 at every regular event; a regular
\* arrival that makes the regular counter 1 begins service at its arrival
\* time, so a regular arrival never waits because of a fastpass customer; it
\* waits exactly when it finds a regular customer already present.
C17_RegularWaitsOnlyForRegular ==
  /\ []RegularEventSeesNoFastpass
  /\ [][SoleRegularEntersService]_vars
  /\ [][(ArrivalStep(1) /\ num_in_queue[1] >= 1) =>
          /\ enter_service_times'[1] = enter_service_times[1]
          /\ NumInFel(1, "departure")' = NumInFel(1, "departure")]_vars

\* C17 witness: a sole regular arrival has begun service at its arrival time,
\* handled after a fastpass customer departed at a later time.
C17_Witness ==
  /\ LoopHead
  /\ num_in_queue = [c \in Class |-> IF c = 1 THEN 1 ELSE 0]
  /\ enter_service_times[1] = <<time>> /\ arrival_times[1] = <<time>>
  /\ Len(departure_times[0]) = 1 /\ departure_times[0][1] > time

\* C18: no customer is stranded: whenever the loop condition is evaluated,
\* for each class the counter is positive if and only if exactly one
\* Departure of that class is in the future event list, and the list never
\* holds a Departure of a class whose counter is 0.
C18_NoneStranded ==
  pc = "loop" =>
    \A c \in Class :
      /\ num_in_queue[c] >= 0
      /\ (num_in_queue[c] > 0) <=> (NumInFel(c, "departure") = 1)
      /\ (num_in_queue[c] = 0) <=> (NumInFel(c, "departure") = 0)

\* C18 witness: a departure has left one customer of its class behind, who
\* entered service at that departure and has a Departure in the list, while
\* the other class is empty and has none.
C18_Witness ==
  \E c \in Class :
    /\ LoopHead
    /\ num_in_queue[c] = 1 /\ num_in_queue[1 - c] = 0
    /\ Len(departure_times[c]) = 1 /\ Len(enter_service_times[c]) = 2
    /\ enter_service_times[c][2] = departure_times[c][1]
    /\ NumInFel(c, "departure") = 1 /\ NumInFel(1 - c, "departure") = 0

\* C19: the logs of a class are indexed by customer in arrival order: the
\* departure log is no longer than the service-entry log, which is no longer
\* than the arrival log; customer i enters service no earlier than it
\* arrives and departs no earlier than it enters service; and each log grows
\* only at its end, by the clock of the iteration.
C19_FirstComeFirstServed ==
  /\ [](\A c \in Class :
          /\ Len(departure_times[c]) <= Len(enter_service_times[c])
          /\ Len(enter_service_times[c]) <= Len(arrival_times[c])
          /\ \A i \in 1 .. Len(enter_service_times[c]) :
               arrival_times[c][i] <= enter_service_times[c][i]
          /\ \A i \in 1 .. Len(departure_times[c]) :
               enter_service_times[c][i] <= departure_times[c][i])
  /\ [][pc = "loop" =>
          \A c \in Class :
            /\ arrival_times'[c] \in
                 {arrival_times[c], Append(arrival_times[c], time')}
            /\ enter_service_times'[c] \in
                 {enter_service_times[c], Append(enter_service_times[c], time')}
            /\ departure_times'[c] \in
                 {departure_times[c], Append(departure_times[c], time')}]_vars

\* C19 witness: the second customer of a class waited for the first, whose
\* service took time, and entered service when the first departed.
C19_Witness ==
  \E c \in Class :
    /\ Len(departure_times[c]) >= 1 /\ Len(enter_service_times[c]) >= 2
    /\ arrival_times[c][2] < enter_service_times[c][2]
    /\ enter_service_times[c][1] < departure_times[c][1]
    /\ arrival_times[c][1] < arrival_times[c][2]

\* the Arrival events in the future event list
ArrivalsInFel == EventsIn(fel, 0, "arrival") \cup EventsIn(fel, 1, "arrival")

\* the arrival times logged so far, of both classes
LoggedArrivals ==
  UNION {{arrival_times[c][i] : i \in 1 .. Len(arrival_times[c])} : c \in Class}

\* C20: whenever the loop condition is evaluated the future event list holds
\* exactly one Arrival event, scheduled no earlier than every arrival logged
\* so far in either class; an Arrival iteration logs a time no earlier than
\* every arrival logged before it and schedules the next Arrival at that time
\* plus an inter-arrival sample; a Departure iteration leaves the Arrival
\* event as it is.
C20_OneArrivalPending ==
  /\ [](pc = "loop" =>
          /\ NumInFel(0, "arrival") + NumInFel(1, "arrival") = 1
          /\ \A e \in ArrivalsInFel : \A t \in LoggedArrivals : t <= e[1][2])
  /\ [][\A c \in Class : ArrivalStep(c) =>
          /\ ArrivalsInFel = {fel[1]}
          /\ time' = fel[1][1][2]
          /\ \A t \in LoggedArrivals : t <= time'
          /\ \E l \in LogSamples : \A e \in ArrivalsInFel' :
               e[1][2] = time' + rand_exp(arrival_rate, l)]_vars
  /\ [][(LoopHead /\ fel[1][2] = "departure") =>
          /\ ArrivalsInFel' = ArrivalsInFel
          /\ arrival_times' = arrival_times]_vars

\* C20 witness: one arrival of each class is logged, a departure has been
\* handled, and the single Arrival in the list is scheduled later than both.
C20_Witness ==
  /\ LoopHead
  /\ Len(arrival_times[0]) = 1 /\ Len(arrival_times[1]) = 1
  /\ Len(departure_times[0]) + Len(departure_times[1]) >= 1
  /\ Cardinality(ArrivalsInFel) = 1
  /\ \A e \in ArrivalsInFel : \A t \in LoggedArrivals : t < e[1][2]
  /\ arrival_times[0][1] # arrival_times[1][1]

====
